---- MODULE Spec2Model ----
(***************************************************************************)
(* CP-ABE with proxy re-encryption: the engine of                          *)
(* cab-share/offchain-crypto/crypto_engine_windows.py (the engine that     *)
(* routes.py imports), the alternative check_match of crypto_engine.py,    *)
(* and the HTTP handlers of routes.py.                                     *)
(*                                                                         *)
(* Cryptographic primitives are symbolic terms.  Every term is a tuple     *)
(* whose first element is a string tag; two terms are equal iff they were  *)
(* built the same way (no collisions, no forgery without the key).         *)
(***************************************************************************)
EXTENDS Integers, Sequences, FiniteSets, TLC

\* ------------------------------------------------------------------ bounds

\* get_random_bytes draws from 1..MaxRand, ECC.generate from 1..MaxMaster
MaxRand == 1
MaxMaster == 2
\* plaintexts are strings of at most MaxLen code points
MaxLen == 1
\* policy matrices have at most MaxRows rows and MaxCols columns
MaxRows == 2
MaxCols == 2

\* attribute labels, identity values (the ptid of user u is the str term
\* Str(u)), code points of the plaintext alphabet
Attrs == {"A", "B"}
UserIds == {"rider", "driver"}
CodePoints == {65, 233}

\* ------------------------------------------------------------- option type

\* Python's None; a present value v is <<v>>
None == <<>>
Some(v) == <<v>>
IsNone(o) == Len(o) = 0
Get(o) == o[1]

\* ------------------------------------------------------- symbolic primitives

\* the n-th possible outcome of get_random_bytes(32), of the 16-byte nonce
\* AES.new draws for MODE_GCM, and of ECC.generate
Rnd(n) == <<"rnd32", n>>
Rand == {Rnd(n) : n \in 1..MaxRand}
Nonces == {<<"rnd16", n>> : n \in 1..MaxRand}
EccKeys == {<<"ecc", n>> : n \in 1..MaxMaster}

\* a Python str that is not built from other terms
Str(s) == <<"str", s>>

\* str.encode('utf-8') of a str term
Enc(t) == <<"utf8", t>>

\* bytes.hex() / hexdigest(); bytes.fromhex() undoes it and raises on
\* anything that is not a hex string
Hex(b) == <<"hex", b>>
IsHex(t) == t[1] = "hex"
FromHex(t) == t[2]

\* HMAC.new(key, digestmod=SHA256) followed by update(m) for each m of msgs
HMAC(key, msgs) == <<"hmac", key, msgs>>

\* hashlib.sha256(x).hexdigest()
sha256hex(x) == Hex(<<"sha256", x>>)

\* json.dumps(d); json.loads raises on anything that is not JSON text
json_dumps(d) == <<"json", d>>
IsJson(t) == t[1] = "json"
json_loads(t) == t[2]

\* str(row) of a list of ints
repr(row) == <<"repr", row>>

\* text that is neither JSON nor hex (what a corrupted field holds)
Garbage == <<"garbage">>

\* ----------------------------------------------------------------- UTF-8

\* str.encode('utf-8') of a plaintext: one or two bytes per code point
EncodeCodePoint(c) ==
    IF c < 128 THEN <<c>> ELSE <<192 + (c \div 64), 128 + (c % 64)>>

RECURSIVE encode_utf8(_)
encode_utf8(s) ==
    IF s = <<>> THEN <<>> ELSE EncodeCodePoint(Head(s)) \o encode_utf8(Tail(s))

\* bytes.decode('utf-8'): None on an invalid sequence (UnicodeDecodeError)
RECURSIVE decode_utf8(_)
decode_utf8(b) ==
    IF b = <<>> THEN Some(<<>>)
    ELSE IF b[1] < 128
         THEN LET r == decode_utf8(Tail(b))
              IN IF IsNone(r) THEN None ELSE Some(<<b[1]>> \o Get(r))
    ELSE IF b[1] >= 194 /\ b[1] < 224 /\ Len(b) >= 2 /\ b[2] >= 128 /\ b[2] < 192
         THEN LET r == decode_utf8(Tail(Tail(b)))
              IN IF IsNone(r) THEN None
                 ELSE Some(<<(b[1] - 192) * 64 + (b[2] - 128)>> \o Get(r))
    ELSE None

\* --------------------------------------------------------------- AES-GCM

\* cipher.encrypt_and_digest(data) under (key, nonce)
gcm_encrypt(key, nonce, data) ==
    [ciphertext |-> <<"gcm", key, nonce, data>>,
     tag        |-> <<"gcmtag", key, nonce, data>>]

\* cipher.decrypt(body) without the tag check: the data under the key and
\* nonce it was encrypted with, other bytes under any other
gcm_decrypt_unchecked(key, nonce, body, tag) ==
    IF body[1] = "gcm" /\ body[2] = key /\ body[3] = nonce
    THEN Some(body[4])
    ELSE Some(<<65>>)

\* cipher.decrypt_and_verify(body, tag) under (key, nonce): the data, or None
\* when the tag does not authenticate (ValueError "MAC check failed")
gcm_decrypt(key, nonce, body, tag) ==
    IF /\ body[1] = "gcm"
       /\ body[2] = key
       /\ body[3] = nonce
       /\ tag = <<"gcmtag", key, nonce, body[4]>>
    THEN Some(body[4])
    ELSE None

\* ------------------------------------------------------------ models.py

compute_hash(data) == sha256hex(Enc(data))

compute_binding(plaintext) == sha256hex(Enc(plaintext))

SystemParamsOf(pk, mk) == [pk |-> pk, mk |-> mk]

UserKeysOf(sk, attributes, ptid, binding) ==
    [sk |-> sk, attributes |-> attributes, ptid |-> ptid, binding |-> binding]

AccessPolicyOf(matrix, rho) == [matrix |-> matrix, rho |-> rho]

CiphertextOf(c, policy, ct_hash) == [ct |-> c, policy |-> policy, ct_hash |-> ct_hash]

ReencryptionKeyOf(r, ptid_from, ptid_to) ==
    [rk |-> r, ptid_from |-> ptid_from, ptid_to |-> ptid_to]

ReencryptedCiphertextOf(cp, cp_hash, r2) ==
    [ct_prime |-> cp, ct_prime_hash |-> cp_hash, r_double_prime |-> r2]

\* ------------------------------------------------------------ input sets

RECURSIVE SeqsUpTo(_, _)
SeqsUpTo(S, n) ==
    IF n = 0 THEN {<<>>}
    ELSE LET shorter == SeqsUpTo(S, n - 1)
         IN shorter \cup {Append(s, x) : s \in shorter, x \in S}

SeqsOfLen(S, n) == {s \in SeqsUpTo(S, n) : Len(s) = n}

Range(f) == {f[i] : i \in DOMAIN f}

Plaintexts == SeqsUpTo(CodePoints, MaxLen)

\* attribute lists as the callers pass them (order kept: decrypt reads the
\* first key of sk)
AttrLists == {s \in SeqsUpTo(Attrs, Cardinality(Attrs)) : Cardinality(Range(s)) = Len(s)}

\* every well-formed policy within the bounds: a rows x cols 0/1 matrix and a
\* total map from the row indices 0..rows-1 to attribute labels
Matrices ==
    UNION {SeqsOfLen(SeqsOfLen({0, 1}, c), r) : r \in 1..MaxRows, c \in 1..MaxCols}

Policies ==
    UNION {{AccessPolicyOf(m, rho) : rho \in [0..(Len(m) - 1) -> Attrs]} : m \in Matrices}

\* the policies of the spec's examples
AndPolicy == AccessPolicyOf(<<<<1, 1>>, <<0, 1>>>>, (0 :> "A") @@ (1 :> "B"))
OrPolicy == AccessPolicyOf(<<<<1>>, <<1>>>>, (0 :> "A") @@ (1 :> "B"))

\* ------------------------------------------------- Python dicts and results

\* a dict in insertion order: a sequence of <<key, value>> pairs
RECURSIVE DictSet(_, _, _)
DictSet(d, k, v) ==
    IF d = <<>> THEN <<<<k, v>>>>
    ELSE IF Head(d)[1] = k THEN <<<<k, v>>>> \o Tail(d)
    ELSE <<Head(d)>> \o DictSet(Tail(d), k, v)

DictKeys(d) == [i \in 1..Len(d) |-> d[i][1]]
DictGet(d, k) == d[CHOOSE i \in 1..Len(d) : d[i][1] = k][2]

\* a call that returned val, and a call that raised an exception
Returned(val) == [ok |-> TRUE, val |-> Some(val), err |-> ""]
Raised(e) == [ok |-> FALSE, val |-> None, err |-> e]

\* the message of each exception the engine can raise
NotInitialized == "System not initialized. Call setup() first."
VerificationFailed == "Verification failed! CT' may be tampered."
MacCheckFailed == "MAC check failed"
JSONDecodeError == "JSONDecodeError"
KeyError == "KeyError"
IndexError == "list index out of range"
NonHex == "non-hexadecimal number found in fromhex()"
UnicodeDecodeError == "UnicodeDecodeError"

\* ------------------------------------- crypto_engine_windows.py: the engine

\* ECC.generate(curve='P-256') with outcome r, its public key, DER export
ECC_public(master_key) == <<"pub", master_key>>
DER(key) == <<"der", key>>

\* Algorithm 1: the SystemParams setup() stores in self.params and returns
setup(master_key) ==
    LET public_key == ECC_public(master_key)
    IN SystemParamsOf(
          json_dumps([public_key |-> Hex(DER(public_key)), g |-> <<"x", public_key>>]),
          Hex(DER(master_key)))

\* the loop of keygen over the attribute list
RECURSIVE sk_components_of(_, _, _, _)
sk_components_of(attributes, key, ptid, user_random) ==
    IF attributes = <<>> THEN <<>>
    ELSE LET n == Len(attributes)
             attr == attributes[n]
         IN DictSet(sk_components_of(SubSeq(attributes, 1, n - 1), key, ptid, user_random),
                    attr,
                    Hex(HMAC(key, <<Enc(Str(attr)), Enc(ptid), user_random>>)))

\* Algorithm 2: keygen(attributes, ptid) with self.params = p
keygen(p, attributes, ptid, user_random) ==
    IF IsNone(p) THEN Raised(NotInitialized)
    ELSE LET master_der == FromHex(Get(p).mk)
         IN Returned(UserKeysOf(
                json_dumps(sk_components_of(attributes, master_der, ptid, user_random)),
                attributes,
                ptid,
                compute_binding(ptid)))

\* the loop of encrypt over the rows of the policy matrix
RECURSIVE key_shares_of(_, _, _)
key_shares_of(policy, n, aes_key) ==
    IF n = 0 THEN <<>>
    ELSE LET row == policy.matrix[n]
             attr == policy.rho[n - 1]
         IN DictSet(key_shares_of(policy, n - 1, aes_key),
                    attr,
                    [share |-> Hex(HMAC(aes_key, <<Enc(Str(attr)), Enc(repr(row))>>)),
                     row   |-> row])

\* encrypt with the nonce written where the key belongs
encrypt_nonce_for_key(p, plaintext, policy, aes_key, nonce) ==
    IF IsNone(p) THEN Raised(NotInitialized)
    ELSE LET sealed == gcm_encrypt(aes_key, nonce, encode_utf8(plaintext))
             ct_data == [ciphertext        |-> Hex(sealed.ciphertext),
                         tag               |-> Hex(sealed.tag),
                         nonce             |-> Hex(nonce),
                         key_shares        |-> key_shares_of(policy, Len(policy.matrix), aes_key),
                         aes_key_encrypted |-> Hex(nonce)]
             ct_str == json_dumps(ct_data)
         IN Returned(CiphertextOf(ct_str, policy, compute_hash(ct_str)))

\* Algorithm 3: encrypt(plaintext, policy) with self.params = p
encrypt(p, plaintext, policy, aes_key, nonce) ==
    IF IsNone(p) THEN Raised(NotInitialized)
    ELSE IF \E i \in 0..(Len(policy.matrix) - 1) : i \notin DOMAIN policy.rho
         THEN Raised(KeyError)
    ELSE LET sealed == gcm_encrypt(aes_key, nonce, encode_utf8(plaintext))
             ct_data == [ciphertext        |-> Hex(sealed.ciphertext),
                         tag               |-> Hex(sealed.tag),
                         nonce             |-> Hex(nonce),
                         key_shares        |-> key_shares_of(policy, Len(policy.matrix), aes_key),
                         aes_key_encrypted |-> Hex(aes_key)]
             ct_str == json_dumps(ct_data)
         IN Returned(CiphertextOf(ct_str, policy, compute_hash(ct_str)))

\* Algorithm 4: match(policy, attributes): every label of rho is held
match(policy, attributes) == Range(policy.rho) \subseteq Range(attributes)

\* crypto_engine.py's check_match: at least one row's label is held
check_match(user_attrs, policy) ==
    LET satisfied_rows == {i \in 0..(Len(policy.matrix) - 1) : policy.rho[i] \in Range(user_attrs)}
    IN IF satisfied_rows = {} THEN FALSE ELSE Cardinality(satisfied_rows) >= 1

\* generate_rekey putting the rider's secret key string into rk_data
generate_rekey_with_sk(sk_rider, pk_driver, ptid_driver, reenc_random) ==
    IF ~IsJson(sk_rider.sk) THEN Raised(JSONDecodeError)
    ELSE LET sk_components == json_loads(sk_rider.sk)
             h == HMAC(reenc_random,
                       <<Enc(json_dumps(sk_components)), Enc(pk_driver), Enc(ptid_driver)>>)
             rk_data == [reenc_key   |-> Hex(h),
                         ptid_driver |-> ptid_driver,
                         random      |-> Hex(reenc_random),
                         sk          |-> sk_rider.sk]
         IN Returned(ReencryptionKeyOf(json_dumps(rk_data), sk_rider.ptid, ptid_driver))

\* Algorithm 5: generate_rekey(sk_rider, pk_driver, ptid_driver)
generate_rekey(sk_rider, pk_driver, ptid_driver, reenc_random) ==
    IF ~IsJson(sk_rider.sk) THEN Raised(JSONDecodeError)
    ELSE LET sk_components == json_loads(sk_rider.sk)
             h == HMAC(reenc_random,
                       <<Enc(json_dumps(sk_components)), Enc(pk_driver), Enc(ptid_driver)>>)
             rk_data == [reenc_key   |-> Hex(h),
                         ptid_driver |-> ptid_driver,
                         random      |-> Hex(reenc_random)]
         IN Returned(ReencryptionKeyOf(json_dumps(rk_data), sk_rider.ptid, ptid_driver))

\* reencrypt carrying over ct_hash of the Ciphertext it was given
reencrypt_stale_hash(c, r) ==
    IF ~IsJson(c.ct) \/ ~IsJson(r.rk) THEN Raised(JSONDecodeError)
    ELSE LET ct_data == json_loads(c.ct)
             rk_data == json_loads(r.rk)
             h == HMAC(FromHex(rk_data.random), <<Enc(ct_data.aes_key_encrypted)>>)
             ct_prime_data == [ciphertext |-> ct_data.ciphertext,
                               tag        |-> ct_data.tag,
                               nonce      |-> ct_data.nonce,
                               reenc_key  |-> Hex(h),
                               ptid_to    |-> rk_data.ptid_driver]
             r_double_prime == sha256hex(Enc(sha256hex(Enc(rk_data.reenc_key))))
         IN Returned(ReencryptedCiphertextOf(json_dumps(ct_prime_data), c.ct_hash, r_double_prime))

\* Algorithm 6: reencrypt(ct, rk)
reencrypt(c, r) ==
    IF ~IsJson(c.ct) \/ ~IsJson(r.rk) THEN Raised(JSONDecodeError)
    ELSE LET ct_data == json_loads(c.ct)
             rk_data == json_loads(r.rk)
         IN IF ~IsHex(rk_data.random) THEN Raised(NonHex)
            ELSE LET h == HMAC(FromHex(rk_data.random), <<Enc(ct_data.aes_key_encrypted)>>)
                     reenc_key == Hex(h)
                     ct_prime_data == [ciphertext |-> ct_data.ciphertext,
                                       tag        |-> ct_data.tag,
                                       nonce      |-> ct_data.nonce,
                                       reenc_key  |-> reenc_key,
                                       ptid_to    |-> rk_data.ptid_driver]
                     ct_prime_str == json_dumps(ct_prime_data)
                     ct_prime_hash == compute_hash(ct_prime_str)
                     f_hash == sha256hex(Enc(rk_data.reenc_key))
                     r_double_prime == sha256hex(Enc(f_hash))
                 IN Returned(ReencryptedCiphertextOf(ct_prime_str, ct_prime_hash, r_double_prime))

\* Algorithm 7: verify(ct_prime)
verify(cp) ==
    IF ~IsJson(cp.ct_prime) THEN Raised(JSONDecodeError)
    ELSE LET ct_prime_data == json_loads(cp.ct_prime)
         IN IF "reenc_key" \notin DOMAIN ct_prime_data THEN Returned(FALSE)
            ELSE LET f_hash == sha256hex(Enc(ct_prime_data.reenc_key))
                     expected_r == sha256hex(Enc(f_hash))
                 IN Returned(expected_r = cp.r_double_prime)

\* the steps decrypt has run, in order, and the AES key it derived (if any)
Traced(res, steps, aes_key) ==
    [ok |-> res.ok, val |-> res.val, err |-> res.err, steps |-> steps, aes_key |-> aes_key]

\* lines 299-306 of decrypt: AES-GCM decryption under aes_key, then decode
aes_decrypt(ct_data, aes_key, steps) ==
    IF \E f \in {"nonce", "ciphertext", "tag"} : f \notin DOMAIN ct_data
    THEN Traced(Raised(KeyError), steps, Some(aes_key))
    ELSE IF \E f \in {"nonce", "ciphertext", "tag"} : ~IsHex(ct_data[f])
    THEN Traced(Raised(NonHex), steps, Some(aes_key))
    ELSE LET opened == gcm_decrypt(aes_key, FromHex(ct_data.nonce),
                                   FromHex(ct_data.ciphertext), FromHex(ct_data.tag))
             ran == Append(steps, "aes_decrypt")
         IN IF IsNone(opened) THEN Traced(Raised(MacCheckFailed), ran, Some(aes_key))
            ELSE LET text == decode_utf8(Get(opened))
                 IN IF IsNone(text)
                    THEN Traced(Raised(UnicodeDecodeError), ran, Some(aes_key))
                    ELSE Traced(Returned(Get(text)), ran, Some(aes_key))

\* lines 289-292 of decrypt: the AES key of the proxy path, from the first
\* component of sk and reenc_key
derive_key(ct_data, sk_user, steps) ==
    IF ~IsJson(sk_user.sk) THEN Traced(Raised(JSONDecodeError), steps, None)
    ELSE LET sk_components == json_loads(sk_user.sk)
         IN IF sk_components = <<>> THEN Traced(Raised(IndexError), steps, None)
            ELSE LET first == sk_components[1][2]
                 IN IF ~IsHex(first) THEN Traced(Raised(NonHex), steps, None)
                    ELSE aes_decrypt(ct_data,
                                     HMAC(FromHex(first), <<Enc(ct_data.reenc_key)>>),
                                     Append(steps, "derive_key"))

\* decrypt deriving the key whatever verify answers
decrypt_unverified(x, sk_user) ==
    IF "ct_prime" \in DOMAIN x
    THEN IF ~IsJson(x.ct_prime) THEN Traced(Raised(JSONDecodeError), <<>>, None)
         ELSE IF "reenc_key" \notin DOMAIN json_loads(x.ct_prime)
              THEN Traced(Raised(KeyError), <<"verify">>, None)
              ELSE derive_key(json_loads(x.ct_prime), sk_user, <<"verify">>)
    ELSE aes_decrypt(json_loads(x.ct), FromHex(json_loads(x.ct).aes_key_encrypted),
                     <<"read_key">>)

\* Algorithm 8: decrypt(ct_or_ct_prime, sk)
decrypt(x, sk_user) ==
    IF "ct_prime" \in DOMAIN x
    THEN IF ~IsJson(x.ct_prime) THEN Traced(Raised(JSONDecodeError), <<>>, None)
         ELSE LET ct_data == json_loads(x.ct_prime)
                  verdict == verify(x)
              IN IF ~Get(verdict.val)
                 THEN Traced(Raised(VerificationFailed), <<"verify">>, None)
                 ELSE derive_key(ct_data, sk_user, <<"verify">>)
    ELSE IF ~IsJson(x.ct) THEN Traced(Raised(JSONDecodeError), <<>>, None)
         ELSE LET ct_data == json_loads(x.ct)
              IN IF "aes_key_encrypted" \notin DOMAIN ct_data
                 THEN Traced(Raised(KeyError), <<>>, None)
                 ELSE IF ~IsHex(ct_data.aes_key_encrypted)
                 THEN Traced(Raised(NonHex), <<>>, None)
                 ELSE aes_decrypt(ct_data, FromHex(ct_data.aes_key_encrypted), <<"read_key">>)

\* ---------------------------------------------------------------- state

VARIABLES
    params,            \* crypto_engine.params, the engine's self.params
    system_params,     \* routes.py's global system_params
    user_keys_store,   \* routes.py's global user_keys_store: ptid -> UserKeys
    sk,                \* the UserKeys each party holds, as keygen returned them
    ct,                \* the Ciphertext the rider holds, as encrypt returned it
    rk,                \* the ReencryptionKey the proxy holds
    ct_prime,          \* the ReencryptedCiphertext reencrypt returned
    sent,              \* history: the plaintext given to encrypt and the key it drew
    inflight,          \* the locals of each request being served by a worker thread
    last               \* the most recent call: operation, arguments, outcome

vars == <<params, system_params, user_keys_store, sk, ct, rk, ct_prime, sent, inflight, last>>

\* the threads of the server that handle requests, and one with no request
Workers == {"w1", "w2"}

Idle ==
    [pc |-> "idle", op |-> "", user_id |-> "", attributes |-> <<>>, master_der |-> None,
     user_random |-> None, i |-> 0, sk_components |-> <<>>, user_keys |-> None,
     user_sk |-> None]

NoCall == [op |-> "none", level |-> "", uninit |-> FALSE, args |-> <<>>, res |-> Raised("")]

Call(op, level, uninit, args, res) ==
    [op |-> op, level |-> level, uninit |-> uninit, args |-> args, res |-> res]

Init ==
    /\ params = None
    /\ system_params = None
    /\ user_keys_store = <<>>
    /\ sk = [u \in UserIds |-> None]
    /\ ct = None
    /\ rk = None
    /\ ct_prime = None
    /\ sent = None
    /\ inflight = [w \in Workers |-> Idle]
    /\ last = NoCall

\* ------------------------------------------- the engine, called in sequence

\* the attribute list each party asks keys for, and the policies encrypted under
KeyAttrs == [rider |-> <<"A", "B">>, driver |-> <<"A">>]
EncPolicies == {AndPolicy, OrPolicy}

\* crypto_engine.setup(), once per engine in this sequence
Engine_setup ==
    \E master_key \in EccKeys :
        /\ IsNone(params)
        /\ params' = Some(setup(master_key))
        /\ last' = Call("setup", "engine", IsNone(params), <<>>, Returned(setup(master_key)))
        /\ UNCHANGED <<inflight, system_params, user_keys_store, sk, ct, rk, ct_prime, sent>>

\* crypto_engine.keygen(attributes, ptid), the caller keeping the keys
Engine_keygen ==
    \E u \in UserIds, user_random \in Rand :
        LET res == keygen(params, KeyAttrs[u], Str(u), user_random)
        IN /\ IsNone(sk[u])
           /\ sk' = IF res.ok THEN [sk EXCEPT ![u] = res.val] ELSE sk
           /\ last' = Call("keygen", "engine", IsNone(params), <<u>>, res)
           /\ UNCHANGED <<inflight, params, system_params, user_keys_store, ct, rk, ct_prime, sent>>

\* crypto_engine.encrypt(plaintext, policy)
Engine_encrypt ==
    \E plaintext \in Plaintexts, policy \in EncPolicies, aes_key \in Rand, nonce \in Nonces :
        LET res == encrypt(params, plaintext, policy, aes_key, nonce)
        IN /\ IsNone(ct)
           /\ ct' = res.val
           /\ sent' = IF res.ok THEN Some([plaintext |-> plaintext, aes_key |-> aes_key])
                      ELSE sent
           /\ last' = Call("encrypt", "engine", IsNone(params), <<>>, res)
           /\ UNCHANGED <<inflight, params, system_params, user_keys_store, sk, rk, ct_prime>>

\* crypto_engine.generate_rekey(sk_rider, pk_driver, ptid_driver), with the
\* driver's key material passed as routes.py line 230 passes it
Engine_generate_rekey ==
    \E reenc_random \in Rand :
        /\ ~IsNone(sk["rider"]) /\ ~IsNone(sk["driver"])
        /\ IsNone(rk)
        /\ LET sk_rider == Get(sk["rider"])
               sk_driver == Get(sk["driver"])
               res == generate_rekey(sk_rider, sk_driver.sk, sk_driver.ptid, reenc_random)
           IN /\ rk' = res.val
              /\ last' = Call("generate_rekey", "engine", IsNone(params), <<>>, res)
        /\ UNCHANGED <<inflight, params, system_params, user_keys_store, sk, ct, ct_prime, sent>>

\* crypto_engine.reencrypt(ct, rk)
Engine_reencrypt ==
    /\ ~IsNone(ct) /\ ~IsNone(rk)
    /\ IsNone(ct_prime)
    /\ LET res == reencrypt(Get(ct), Get(rk))
       IN /\ ct_prime' = res.val
          /\ last' = Call("reencrypt", "engine", IsNone(params), <<>>, res)
    /\ UNCHANGED <<inflight, params, system_params, user_keys_store, sk, ct, rk, sent>>

\* what the receiver is handed in place of the ReencryptedCiphertext cp that
\* reencrypt(c, r) returned: cp itself ("none") or cp with one part changed
Changes ==
    {"none", "body", "reenc_key_swapped", "reenc_key_bad", "reenc_key_dropped",
     "tag_recomputed", "tag_bad", "not_json"}

Changed(cp, r, change) ==
    LET d == json_loads(cp.ct_prime)
        without == [f \in (DOMAIN d) \ {"reenc_key"} |-> d[f]]
        recomputed == sha256hex(Enc(sha256hex(Enc(d.reenc_key))))
    IN CASE change = "none" -> cp
         [] change = "body" ->
              [cp EXCEPT !.ct_prime = json_dumps([d EXCEPT !.ciphertext = Hex(Garbage)])]
         [] change = "reenc_key_swapped" ->
              [cp EXCEPT !.ct_prime =
                  json_dumps([d EXCEPT !.reenc_key = json_loads(r.rk).reenc_key])]
         [] change = "reenc_key_bad" ->
              [cp EXCEPT !.ct_prime = json_dumps([d EXCEPT !.reenc_key = Hex(Garbage)])]
         [] change = "reenc_key_dropped" -> [cp EXCEPT !.ct_prime = json_dumps(without)]
         [] change = "tag_recomputed" -> [cp EXCEPT !.r_double_prime = recomputed]
         [] change = "tag_bad" -> [cp EXCEPT !.r_double_prime = Hex(Garbage)]
         [] change = "not_json" -> [cp EXCEPT !.ct_prime = Garbage]

\* crypto_engine.verify(ct_prime)
Engine_verify ==
    \E change \in Changes :
        /\ ~IsNone(ct_prime)
        /\ last' = Call("verify", "engine", IsNone(params), <<change>>,
                        verify(Changed(Get(ct_prime), Get(rk), change)))
        /\ UNCHANGED <<inflight, params, system_params, user_keys_store, sk, ct, rk, ct_prime, sent>>

\* crypto_engine.decrypt(ct, sk): the direct path
Engine_decrypt_direct ==
    \E u \in UserIds :
        /\ ~IsNone(ct) /\ ~IsNone(sk[u])
        /\ last' = Call("decrypt", "engine", IsNone(params), <<"ct", u>>,
                        decrypt(Get(ct), Get(sk[u])))
        /\ UNCHANGED <<inflight, params, system_params, user_keys_store, sk, ct, rk, ct_prime, sent>>

\* crypto_engine.decrypt(ct_prime, sk): the proxy path
Engine_decrypt_proxy ==
    \E u \in UserIds, change \in Changes :
        /\ ~IsNone(ct_prime) /\ ~IsNone(sk[u])
        /\ last' = Call("decrypt", "engine", IsNone(params), <<change, u>>,
                        decrypt(Changed(Get(ct_prime), Get(rk), change), Get(sk[u])))
        /\ UNCHANGED <<inflight, params, system_params, user_keys_store, sk, ct, rk, ct_prime, sent>>

\* what reencrypt or decrypt is handed in place of the Ciphertext c that
\* encrypt returned: c with its policy, its key shares, its body, its tag,
\* its nonce or its key field changed, ct_hash left as encrypt computed it
CtChanges == {"policy", "key_shares", "body", "tag", "nonce", "key"}

ChangedCt(c, change) ==
    LET d == json_loads(c.ct)
    IN CASE change = "policy" ->
              [c EXCEPT !.policy = IF c.policy = AndPolicy THEN OrPolicy ELSE AndPolicy]
         [] change = "key_shares" -> [c EXCEPT !.ct = json_dumps([d EXCEPT !.key_shares = <<>>])]
         [] change = "body" ->
              [c EXCEPT !.ct = json_dumps([d EXCEPT !.ciphertext = Hex(Garbage)])]
         [] change = "tag" ->
              [c EXCEPT !.ct = json_dumps([d EXCEPT !.tag = Hex(Garbage)])]
         [] change = "nonce" ->
              [c EXCEPT !.ct = json_dumps([d EXCEPT !.nonce = Hex(<<"rnd16", 0>>)])]
         [] change = "key" ->
              [c EXCEPT !.ct = json_dumps([d EXCEPT !.aes_key_encrypted = Hex(<<"rnd32", 0>>)])]

\* crypto_engine.decrypt(ct, sk) on a changed Ciphertext
Engine_decrypt_tampered ==
    \E u \in UserIds, change \in CtChanges :
        /\ ~IsNone(ct) /\ ~IsNone(sk[u])
        /\ last' = Call("decrypt_tampered", "engine", IsNone(params), <<change, u>>,
                        decrypt(ChangedCt(Get(ct), change), Get(sk[u])))
        /\ UNCHANGED <<inflight, params, system_params, user_keys_store, sk, ct, rk, ct_prime, sent>>

\* crypto_engine.reencrypt(ct, rk) on a changed Ciphertext, the result not kept
Engine_reencrypt_tampered ==
    \E change \in CtChanges :
        /\ ~IsNone(ct) /\ ~IsNone(rk)
        /\ last' = Call("reencrypt_tampered", "engine", IsNone(params), <<change>>,
                        reencrypt(ChangedCt(Get(ct), change), Get(rk)))
        /\ UNCHANGED <<inflight, params, system_params, user_keys_store, sk, ct, rk, ct_prime, sent>>

EngineNext ==
    \/ Engine_setup
    \/ Engine_keygen
    \/ Engine_encrypt
    \/ Engine_generate_rekey
    \/ Engine_reencrypt
    \/ Engine_verify
    \/ Engine_decrypt_direct
    \/ Engine_decrypt_proxy
    \/ Engine_decrypt_tampered
    \/ Engine_reencrypt_tampered

EngineSpec == Init /\ [][EngineNext]_vars

\* ------------------------------------------------------------ routes.py

\* jsonify of a policy's to_dict(): JSON object keys are strings, and
\* AccessPolicy.from_dict turns them back with int(k)
KeyOfInt == (0 :> "0") @@ (1 :> "1") @@ (2 :> "2") @@ (3 :> "3")
IntOfKey == ("0" :> 0) @@ ("1" :> 1) @@ ("2" :> 2) @@ ("3" :> 3)

AccessPolicy_to_wire(policy) ==
    [matrix |-> policy.matrix,
     rho    |-> [k \in {KeyOfInt[i] : i \in DOMAIN policy.rho} |-> policy.rho[IntOfKey[k]]]]

AccessPolicy_from_dict(data) ==
    AccessPolicyOf(data.matrix,
                   [i \in {IntOfKey[k] : k \in DOMAIN data.rho} |-> data.rho[KeyOfInt[i]]])

Ciphertext_to_wire(c) ==
    [ct |-> c.ct, policy |-> AccessPolicy_to_wire(c.policy), ct_hash |-> c.ct_hash]

Ciphertext_from_dict(data) ==
    CiphertextOf(data.ct, AccessPolicy_from_dict(data.policy), data.ct_hash)

\* a handler's answer: the HTTP status, the JSON body of a success, the
\* "error" text of a failure
Response(code, body) == [ok |-> TRUE, code |-> code, val |-> Some(body), err |-> ""]
ErrorResponse(code, error) == [ok |-> FALSE, code |-> code, val |-> None, err |-> error]

\* 'temp_driver_' + str(hash(str(x))) and 'temp_rider_' + str(hash(str(x)))
temp_ptid(prefix, x) == <<"concat", prefix, <<"hash", x>>>>

\* a request field that is absent (data.get returns None)
Absent == <<>>

\* the bodies clients send: one ciphertext as /encrypt answers it, one
\* re-encryption key as /rekey answers it for that ciphertext, and the
\* transformed ciphertext /reencrypt answers for the two, in wire form
SampleParams == Some(setup(<<"ecc", 1>>))
SampleCt == Get(encrypt(SampleParams, <<233>>, AndPolicy, Rnd(1), <<"rnd16", 1>>).val)
SampleRiderKeys ==
    Get(keygen(SampleParams, <<"A", "B">>, temp_ptid("temp_rider_", SampleCt.ct_hash), Rnd(1)).val)
SampleDriverKeys ==
    Get(keygen(SampleParams, <<"A", "B">>,
               temp_ptid("temp_driver_", AccessPolicy_to_wire(OrPolicy)), Rnd(1)).val)
SampleRk ==
    Get(generate_rekey(SampleRiderKeys, SampleDriverKeys.sk, SampleDriverKeys.ptid, Rnd(1)).val)
SampleCtPrime == Get(reencrypt(SampleCt, SampleRk).val)

\* the state both /setup and the guards read
Uninitialized == IsNone(system_params) /\ IsNone(params)

\* /setup publishing the route-level system_params without the engine's params
POST_setup_route_only ==
    \E master_key \in EccKeys :
        /\ system_params' = Some(setup(master_key))
        /\ last' = Call("setup", "route", Uninitialized, <<>>,
                        Response(200, [params |-> [pk |-> setup(master_key).pk,
                                                   initialized |-> TRUE]]))
        /\ UNCHANGED <<inflight, params, user_keys_store, sk, ct, rk, ct_prime, sent>>

\* /setup answering with system_params.to_dict()
POST_setup_returns_mk ==
    \E master_key \in EccKeys :
        /\ params' = Some(setup(master_key))
        /\ system_params' = params'
        /\ last' = Call("setup", "route", Uninitialized, <<>>,
                        Response(200, [params |-> [pk |-> setup(master_key).pk,
                                                   mk |-> setup(master_key).mk,
                                                   initialized |-> TRUE]]))
        /\ UNCHANGED <<inflight, user_keys_store, sk, ct, rk, ct_prime, sent>>

\* POST /setup
POST_setup ==
    \E master_key \in EccKeys :
        /\ params' = Some(setup(master_key))
        /\ system_params' = params'
        /\ last' = Call("setup", "route", Uninitialized, <<>>,
                        Response(200, [params |-> [pk |-> setup(master_key).pk,
                                                   initialized |-> TRUE]]))
        /\ UNCHANGED <<inflight, user_keys_store, sk, ct, rk, ct_prime, sent>>

\* /keygen registering whatever the engine returns before it validates the body
POST_keygen_registers_first ==
    \E user_id \in UserIds \cup {""}, with_attributes \in BOOLEAN, user_random \in Rand :
        LET attributes == IF ~with_attributes THEN <<>>
                          ELSE IF user_id = "" THEN <<"A">> ELSE KeyAttrs[user_id]
            res == keygen(params, attributes, Str(user_id), user_random)
            answer ==
                IF IsNone(system_params)
                THEN ErrorResponse(400, "System not initialized. Call /setup first")
                ELSE IF attributes = <<>> \/ user_id = ""
                THEN ErrorResponse(400, "Missing attributes or user_id")
                ELSE IF ~res.ok THEN ErrorResponse(500, res.err)
                ELSE Response(200, [keys |-> [ptid       |-> Get(res.val).ptid,
                                              attributes |-> Get(res.val).attributes,
                                              binding    |-> Get(res.val).binding],
                                    ptid |-> Get(res.val).ptid])
        IN /\ user_keys_store' =
                 IF res.ok
                 THEN DictSet(user_keys_store, Get(res.val).ptid, Get(res.val))
                 ELSE user_keys_store
           /\ last' = Call("keygen", "route", Uninitialized, <<attributes, user_id>>, answer)
           /\ UNCHANGED <<inflight, params, system_params, sk, ct, rk, ct_prime, sent>>

\* POST /keygen with body {attributes, user_id}
POST_keygen ==
    \E user_id \in UserIds \cup {""}, with_attributes \in BOOLEAN, user_random \in Rand :
        LET attributes == IF ~with_attributes THEN <<>>
                          ELSE IF user_id = "" THEN <<"A">> ELSE KeyAttrs[user_id]
            res == keygen(params, attributes, Str(user_id), user_random)
            answer ==
                IF IsNone(system_params)
                THEN ErrorResponse(400, "System not initialized. Call /setup first")
                ELSE IF attributes = <<>> \/ user_id = ""
                THEN ErrorResponse(400, "Missing attributes or user_id")
                ELSE IF ~res.ok THEN ErrorResponse(500, res.err)
                ELSE Response(200, [keys |-> [ptid       |-> Get(res.val).ptid,
                                              attributes |-> Get(res.val).attributes,
                                              binding    |-> Get(res.val).binding],
                                    ptid |-> Get(res.val).ptid])
        IN /\ user_keys_store' =
                 IF answer.ok
                 THEN DictSet(user_keys_store, Get(res.val).ptid, Get(res.val))
                 ELSE user_keys_store
           /\ last' = Call("keygen", "route", Uninitialized, <<attributes, user_id>>, answer)
           /\ UNCHANGED <<inflight, params, system_params, sk, ct, rk, ct_prime, sent>>

\* policies a client can send that break the invariant len(rho) = rows and
\* equal row lengths: nothing at all, rows of different length, a label without
\* a row, a row without a label
EmptyPolicy == AccessPolicyOf(<<>>, <<>>)
RaggedPolicy == AccessPolicyOf(<<<<1, 1>>, <<1>>>>, (0 :> "A") @@ (1 :> "B"))
ExtraRhoPolicy == AccessPolicyOf(<<<<1>>>>, (0 :> "A") @@ (1 :> "B"))
MissingRhoPolicy == AccessPolicyOf(<<<<1>>, <<1>>>>, (0 :> "A"))
MalformedPolicies == {EmptyPolicy, RaggedPolicy, ExtraRhoPolicy, MissingRhoPolicy}

\* the policy fields clients send to /encrypt, and the target policies they
\* send to /rekey
RequestPolicies == EncPolicies \cup MalformedPolicies
\* a target policy over a label no rider key and no encrypted policy has
DisjointPolicy == AccessPolicyOf(<<<<1>>>>, (0 :> "C"))
TargetPolicies == {OrPolicy, EmptyPolicy, DisjointPolicy}

\* the plaintext fields clients send to /encrypt: empty, ASCII, non-ASCII
RequestPlaintexts == {<<>>, <<65>>, <<233>>}

\* POST /encrypt with body {plaintext, policy}
POST_encrypt ==
    \E plaintext \in RequestPlaintexts,
       policy_data \in {Absent} \cup {Some(AccessPolicy_to_wire(pi)) : pi \in RequestPolicies},
       aes_key \in Rand, nonce \in Nonces :
        LET answer ==
                IF IsNone(system_params) THEN ErrorResponse(400, "System not initialized")
                ELSE IF plaintext = <<>> \/ policy_data = Absent
                THEN ErrorResponse(400, "Missing plaintext or policy")
                ELSE LET res == encrypt(params, plaintext,
                                        AccessPolicy_from_dict(Get(policy_data)), aes_key, nonce)
                     IN IF ~res.ok THEN ErrorResponse(500, res.err)
                        ELSE Response(200, [ciphertext |-> Ciphertext_to_wire(Get(res.val)),
                                            ct_hash    |-> Get(res.val).ct_hash])
        IN /\ last' = Call("encrypt", "route", Uninitialized, <<plaintext, policy_data>>, answer)
           /\ UNCHANGED <<inflight, params, system_params, user_keys_store, sk, ct, rk, ct_prime, sent>>

\* POST /match with body {driver_attributes, policy}
POST_match ==
    \E driver_attrs \in {<<>>} \cup Range(KeyAttrs),
       policy_data \in {Absent} \cup {Some(AccessPolicy_to_wire(pi)) : pi \in EncPolicies} :
        LET answer ==
                IF driver_attrs = <<>> \/ policy_data = Absent
                THEN ErrorResponse(400, "Missing driver_attributes or policy")
                ELSE Response(200, [matches |->
                         match(AccessPolicy_from_dict(Get(policy_data)), driver_attrs)])
        IN /\ last' = Call("match", "route", Uninitialized, <<driver_attrs, policy_data>>, answer)
           /\ UNCHANGED <<inflight, params, system_params, user_keys_store, sk, ct, rk, ct_prime, sent>>

\* list(policy.rho.values())
rho_values(policy) == [i \in 1..Cardinality(DOMAIN policy.rho) |-> policy.rho[i - 1]]

\* /rekey putting the temporary driver and rider keys into user_keys_store
POST_rekey_stores_temp_keys ==
    \E ct_data \in {Some(Ciphertext_to_wire(SampleCt))},
       target_policy_data \in {Some(AccessPolicy_to_wire(pi)) : pi \in TargetPolicies},
       driver_random \in Rand, rider_random \in Rand, reenc_random \in Rand :
        LET original_ct == Ciphertext_from_dict(Get(ct_data))
            target_policy == AccessPolicy_from_dict(Get(target_policy_data))
            driver_ptid == temp_ptid("temp_driver_", AccessPolicy_to_wire(target_policy))
            driver_keys == keygen(params, rho_values(target_policy), driver_ptid, driver_random)
            rider_ptid == temp_ptid("temp_rider_", original_ct.ct_hash)
            rider_keys == keygen(params, rho_values(original_ct.policy), rider_ptid, rider_random)
            res == generate_rekey(Get(rider_keys.val), Get(driver_keys.val).sk,
                                  driver_ptid, reenc_random)
        IN /\ ~IsNone(system_params)
           /\ res.ok
           /\ user_keys_store' = DictSet(DictSet(user_keys_store, driver_ptid, Get(driver_keys.val)),
                                         rider_ptid, Get(rider_keys.val))
           /\ last' = Call("rekey", "route", Uninitialized, <<ct_data, target_policy_data>>,
                           Response(200, [rekey |-> Get(res.val)]))
           /\ UNCHANGED <<inflight, params, system_params, sk, ct, rk, ct_prime, sent>>

\* POST /rekey with body {original_ct, target_policy}
POST_rekey ==
    \E ct_data \in {Absent, Some(Ciphertext_to_wire(SampleCt))},
       target_policy_data \in {Absent} \cup {Some(AccessPolicy_to_wire(pi)) : pi \in TargetPolicies},
       driver_random \in Rand, rider_random \in Rand, reenc_random \in Rand :
        LET answer ==
                IF IsNone(system_params) THEN ErrorResponse(400, "System not initialized")
                ELSE IF ct_data = Absent \/ target_policy_data = Absent
                THEN ErrorResponse(400, "Missing required fields")
                ELSE LET original_ct == Ciphertext_from_dict(Get(ct_data))
                         target_policy == AccessPolicy_from_dict(Get(target_policy_data))
                         driver_ptid == temp_ptid("temp_driver_", AccessPolicy_to_wire(target_policy))
                         driver_keys == keygen(params, rho_values(target_policy), driver_ptid,
                                               driver_random)
                         rider_ptid == temp_ptid("temp_rider_", original_ct.ct_hash)
                         rider_keys == keygen(params, rho_values(original_ct.policy), rider_ptid,
                                              rider_random)
                     IN IF ~driver_keys.ok THEN ErrorResponse(500, driver_keys.err)
                        ELSE IF ~rider_keys.ok THEN ErrorResponse(500, rider_keys.err)
                        ELSE LET res == generate_rekey(Get(rider_keys.val), Get(driver_keys.val).sk,
                                                       driver_ptid, reenc_random)
                             IN IF ~res.ok THEN ErrorResponse(500, res.err)
                                ELSE Response(200, [rekey |-> Get(res.val)])
        IN /\ last' = Call("rekey", "route", Uninitialized, <<ct_data, target_policy_data>>, answer)
           /\ UNCHANGED <<inflight, params, system_params, user_keys_store, sk, ct, rk, ct_prime, sent>>

\* POST /reencrypt with body {ciphertext, rekey}
POST_reencrypt ==
    \E ct_data \in {Absent, Some(Ciphertext_to_wire(SampleCt))},
       rk_data \in {Absent, Some(SampleRk)} :
        LET answer ==
                IF IsNone(system_params) THEN ErrorResponse(400, "System not initialized")
                ELSE IF ct_data = Absent \/ rk_data = Absent
                THEN ErrorResponse(400, "Missing ciphertext or rekey")
                ELSE LET res == reencrypt(Ciphertext_from_dict(Get(ct_data)),
                                          ReencryptionKeyOf(Get(rk_data).rk, Get(rk_data).ptid_from,
                                                            Get(rk_data).ptid_to))
                     IN IF ~res.ok THEN ErrorResponse(500, res.err)
                        ELSE Response(200, [ct_prime      |-> Get(res.val),
                                            ct_prime_hash |-> Get(res.val).ct_prime_hash])
        IN /\ last' = Call("reencrypt", "route", Uninitialized, <<ct_data, rk_data>>, answer)
           /\ UNCHANGED <<inflight, params, system_params, user_keys_store, sk, ct, rk, ct_prime, sent>>

\* the ct_prime bodies a client sends to /verify and /decrypt
RouteChanges == {"none", "reenc_key_swapped", "tag_bad", "not_json"}
CtPrimeBodies ==
    {Absent} \cup {Some(Changed(SampleCtPrime, SampleRk, change)) : change \in RouteChanges}

\* user_keys_store.get(user_ptid)
StoreGet(user_ptid) ==
    IF \E i \in 1..Len(user_keys_store) : user_keys_store[i][1] = user_ptid
    THEN Some(DictGet(user_keys_store, user_ptid))
    ELSE None

\* POST /verify with body {ct_prime, user_ptid}
POST_verify ==
    \E ct_prime_data \in CtPrimeBodies, user_ptid \in UserIds \cup {""} :
        LET user_sk == StoreGet(Str(user_ptid))
            answer ==
                IF IsNone(system_params) THEN ErrorResponse(400, "System not initialized")
                ELSE IF ct_prime_data = Absent \/ user_ptid = ""
                THEN ErrorResponse(400, "Missing ct_prime or user_ptid")
                ELSE IF IsNone(user_sk) THEN ErrorResponse(404, "User keys not found")
                ELSE LET cp == ReencryptedCiphertextOf(Get(ct_prime_data).ct_prime,
                                                       Get(ct_prime_data).ct_prime_hash,
                                                       Get(ct_prime_data).r_double_prime)
                         res == verify(cp)
                     IN IF ~res.ok THEN ErrorResponse(500, res.err)
                        ELSE Response(200, [valid |-> Get(res.val)])
        IN /\ last' = Call("verify", "route", Uninitialized, <<ct_prime_data, user_ptid>>, answer)
           /\ UNCHANGED <<inflight, params, system_params, user_keys_store, sk, ct, rk, ct_prime, sent>>

\* POST /decrypt with body {ct_prime, user_ptid}
POST_decrypt ==
    \E ct_prime_data \in CtPrimeBodies, user_ptid \in UserIds \cup {""} :
        LET user_sk == StoreGet(Str(user_ptid))
            answer ==
                IF IsNone(system_params) THEN ErrorResponse(400, "System not initialized")
                ELSE IF ct_prime_data = Absent \/ user_ptid = ""
                THEN ErrorResponse(400, "Missing ct_prime or user_ptid")
                ELSE IF IsNone(user_sk) THEN ErrorResponse(404, "User keys not found")
                ELSE LET cp == ReencryptedCiphertextOf(Get(ct_prime_data).ct_prime,
                                                       Get(ct_prime_data).ct_prime_hash,
                                                       Get(ct_prime_data).r_double_prime)
                         res == decrypt(cp, Get(user_sk))
                     IN IF ~res.ok THEN ErrorResponse(500, res.err)
                        ELSE Response(200, [plaintext |-> Get(res.val)])
        IN /\ last' = Call("decrypt", "route", Uninitialized, <<ct_prime_data, user_ptid>>, answer)
           /\ UNCHANGED <<inflight, params, system_params, user_keys_store, sk, ct, rk, ct_prime, sent>>

\* GET /health
GET_health ==
    /\ last' = Call("health", "route", Uninitialized, <<>>,
                    Response(200, [status |-> "healthy",
                                   initialized |-> ~IsNone(system_params)]))
    /\ UNCHANGED <<inflight, params, system_params, user_keys_store, sk, ct, rk, ct_prime, sent>>

Next ==
    \/ POST_setup
    \/ POST_keygen
    \/ POST_encrypt
    \/ POST_match
    \/ POST_rekey
    \/ POST_reencrypt
    \/ POST_verify
    \/ POST_decrypt
    \/ GET_health

Spec == Init /\ [][Next]_vars

\* ------------------------------------------------ Match on its own inputs

\* a fresh engine and the inputs of the call: any policy within the bounds
\* and any attribute list
MatchInit ==
    /\ params = None
    /\ system_params = None
    /\ user_keys_store = <<>>
    /\ sk = [u \in UserIds |-> None]
    /\ ct = None
    /\ rk = None
    /\ ct_prime = None
    /\ sent = None
    /\ inflight = [w \in Workers |-> Idle]
    /\ last \in {Call("input", "engine", TRUE, <<policy, attributes>>, Raised("")) :
                    policy \in Policies, attributes \in AttrLists}

\* crypto_engine.match(policy, attributes)
Match_call ==
    /\ last' = Call("match", "engine", IsNone(params), last.args,
                    Returned(match(last.args[1], last.args[2])))
    /\ UNCHANGED <<inflight, params, system_params, user_keys_store, sk, ct, rk, ct_prime, sent>>

\* crypto_engine.py's check_match(user_attrs, policy) on the same inputs
CheckMatch_call ==
    /\ last' = Call("check_match", "engine", IsNone(params), last.args,
                    Returned(check_match(last.args[2], last.args[1])))
    /\ UNCHANGED <<inflight, params, system_params, user_keys_store, sk, ct, rk, ct_prime, sent>>

MatchNext == Match_call \/ CheckMatch_call

MatchSpec == MatchInit /\ [][MatchNext]_vars

\* ------------------------------------------------- reference definitions

RECURSIVE SumOver(_, _)
SumOver(S, f) ==
    IF S = {} THEN 0
    ELSE LET i == CHOOSE j \in S : TRUE IN f[i] + SumOver(S \ {i}, f)

\* the target vector (1,0,...,0) lies in the span, over the rationals, of the
\* rows of the policy matrix whose label is in attrs: some combination with
\* integer coefficients w equals d times the target, d > 0
InSpan(policy, attrs) ==
    LET M == policy.matrix
        held == {i \in 1..Len(M) : policy.rho[i - 1] \in attrs}
        bound == Len(M) + 1
    IN \E d \in 1..bound : \E w \in [held -> (-bound)..bound] :
          \A j \in 1..Len(M[1]) :
              SumOver(held, [i \in held |-> w[i] * M[i][j]]) = (IF j = 1 THEN d ELSE 0)

\* the attributes of user u's keys satisfy the policy of the held ciphertext,
\* as the engine's match or as span membership decides it
Satisfies(u) ==
    \/ match(Get(ct).policy, Get(sk[u]).attributes)
    \/ InSpan(Get(ct).policy, Range(Get(sk[u]).attributes))

\* everything the holder of a Ciphertext c and a ReencryptionKey r reads out
\* of them with json.loads and bytes.fromhex alone, as reencrypt does
ReadableBy(c, r) ==
    LET ct_data == json_loads(c.ct)
        rk_data == json_loads(r.rk)
    IN {FromHex(ct_data[f]) : f \in {"ciphertext", "tag", "nonce", "aes_key_encrypted"}}
       \cup {FromHex(rk_data[f]) : f \in {"reenc_key", "random"}}

\* the last call was decrypt on the held Ciphertext (direct path)
DirectDecrypt == last.op = "decrypt" /\ last.args[1] = "ct"
\* the last call was decrypt on the ReencryptedCiphertext (proxy path)
ProxyDecrypt == last.op = "decrypt" /\ last.args[1] # "ct"
\* what verify or decrypt was handed on the proxy path
Handed == Changed(Get(ct_prime), Get(rk), last.args[1])

\* -------------------------------------------------------------- claims

\* C1: decrypt of the Ciphertext encrypt(P, pi) returned, with keys whose
\* attributes satisfy pi, returns exactly P.
C1_DirectRoundTrip ==
    (DirectDecrypt /\ Satisfies(last.args[2]))
        => (last.res.ok /\ last.res.val = Some(Get(sent).plaintext))

C1_Witness ==
    /\ DirectDecrypt /\ Satisfies(last.args[2])
    /\ last.res.ok
    /\ last.res.val = Some(<<233>>)

\* C2: verify on the unchanged output of reencrypt(CT, RK) returns true.
C2_VerifyAcceptsReencrypted ==
    (last.op = "verify" /\ last.args[1] = "none")
        => (last.res.ok /\ Get(last.res.val) = TRUE)

\* C3: decrypt of the unchanged ReencryptedCiphertext with the driver's keys
\* returns the plaintext given to encrypt, and the key derived on the proxy
\* path is the key encrypt used.
C3_ProxyRoundTrip ==
    (ProxyDecrypt /\ last.args = <<"none", "driver">>)
        => /\ last.res.ok
           /\ last.res.val = Some(Get(sent).plaintext)
           /\ last.res.aes_key = Some(Get(sent).aes_key)

\* C4: Match returns true only if the target vector lies in the span of the
\* rows whose label is in the attribute set.
C4_MatchNeverOverApproves ==
    (last.op \in {"match", "check_match"} /\ Get(last.res.val))
        => InSpan(last.args[1], Range(last.args[2]))

\* C5: whenever the target vector lies in the span of the rows whose label is
\* in the attribute set, Match returns true.
C5_MatchNeverUnderApproves ==
    (last.op \in {"match", "check_match"} /\ InSpan(last.args[1], Range(last.args[2])))
        => Get(last.res.val)

\* C6: decrypt returns the plaintext of a Ciphertext only to keys whose
\* attributes satisfy its policy.
C6_AttributeGating ==
    (DirectDecrypt /\ last.res.ok) => Satisfies(last.args[2])

\* C7: the symmetric key encrypt used is not among what the holder of the
\* Ciphertext and the ReencryptionKey alone can read out of them.
C7_NoProxyDecryption ==
    (~IsNone(ct) /\ ~IsNone(rk)) => Get(sent).aes_key \notin ReadableBy(Get(ct), Get(rk))

\* C8: after any change to ct_prime or r_double_prime verify returns false
\* and decrypt fails with the verification error without running the
\* symmetric decryption.
C8_TamperDetection ==
    /\ (last.op = "verify" /\ last.args[1] # "none")
          => (last.res.ok /\ Get(last.res.val) = FALSE)
    /\ (ProxyDecrypt /\ last.args[1] # "none")
          => /\ last.res.err = VerificationFailed
             /\ \A i \in 1..Len(last.res.steps) : last.res.steps[i] # "aes_decrypt"

\* C9: on the proxy path decrypt runs verify before any key derivation or
\* symmetric decryption, and when verify returns false it fails with the
\* verification error, having run neither, and returns no plaintext.
C9_VerifyBeforeDecrypt ==
    ProxyDecrypt =>
        LET steps == last.res.steps
            verdict == verify(Handed)
        IN /\ \A i \in 1..Len(steps) :
                 steps[i] \in {"derive_key", "aes_decrypt"}
                     => \E j \in 1..(i - 1) : steps[j] = "verify"
           /\ (verdict.ok /\ ~Get(verdict.val))
                 => /\ ~last.res.ok
                    /\ last.res.err = VerificationFailed
                    /\ steps = <<"verify">>
                    /\ IsNone(last.res.aes_key)
                    /\ IsNone(last.res.val)

C9_Witness ==
    /\ ProxyDecrypt
    /\ verify(Handed).ok /\ ~Get(verify(Handed).val)
    /\ last.res.err = VerificationFailed


\* C10: before setup has run, each of the seven operations KeyGen, Encrypt,
\* Match, ReKeyGen, ReEncrypt, Verify and Decrypt fails with the
\* "system not initialized" error: a request that reaches the service while it
\* is uninitialized is answered by a failure whose error says so.
C10_UninitializedGuard ==
    (last.uninit /\ last.op \notin {"none", "setup", "health"})
        => (~last.res.ok
            /\ last.res.err \in {NotInitialized, "System not initialized",
                                 "System not initialized. Call /setup first"})

\* C11: once SystemParams is published no later Setup replaces or changes
\* it: at most one Setup ever publishes.
C11_SetOnceParams ==
    [][(~IsNone(system_params)) =>
          (system_params' = system_params /\ params' = params)]_vars

\* C12: every successful KeyGen adds a new entry to the issued-key registry
\* under an identifier no earlier call used, and leaves every entry already
\* there as it was.
C12_RegistryWritesNeverCollide ==
    [][(last'.op = "keygen" /\ last'.res.ok) =>
          /\ Len(user_keys_store') = Len(user_keys_store) + 1
          /\ \A i \in 1..Len(user_keys_store) : user_keys_store'[i] = user_keys_store[i]]_vars

\* C13: a request that ends in an error leaves SystemParams and the
\* issued-key registry as they were; SystemParams changes only in a Setup
\* that succeeds and the registry only in a KeyGen that succeeds.
C13_NoPartialMutation ==
    [][/\ (~last'.res.ok) =>
             /\ system_params' = system_params
             /\ params' = params
             /\ user_keys_store' = user_keys_store
       /\ (system_params' # system_params \/ params' # params) =>
             (last'.op = "setup" /\ last'.res.ok)
       /\ (user_keys_store' # user_keys_store) =>
             (last'.op = "keygen" /\ last'.res.ok)]_vars

C13_Witness ==
    /\ last.op = "keygen" /\ ~last.res.ok /\ last.res.code = 400
    /\ ~last.uninit
    /\ last.args[1] = <<>> /\ last.args[2] = "rider"
    /\ Len(user_keys_store) > 0

\* C14: decrypt returns a plaintext only if the value it was handed carries a
\* binding and that binding is the hash of the plaintext returned.
C14_BindingCheck ==
    (last.op = "decrypt" /\ last.res.ok) =>
        LET x == IF DirectDecrypt THEN Get(ct) ELSE Handed
        IN /\ "binding" \in DOMAIN x
           /\ x.binding = compute_binding(Get(last.res.val))

\* C15: the ReencryptedCiphertext reencrypt returned carries the body, tag
\* and nonce of the Ciphertext it was given unchanged, and the binding of
\* that Ciphertext unchanged.
C15_ReencryptFrame ==
    (~IsNone(ct_prime)) =>
        LET c == Get(ct)
            cp == Get(ct_prime)
            ct_data == json_loads(c.ct)
            ct_prime_data == json_loads(cp.ct_prime)
        IN /\ \A f \in {"ciphertext", "tag", "nonce"} : ct_prime_data[f] = ct_data[f]
           /\ "binding" \in DOMAIN c
           /\ "binding" \in DOMAIN cp
           /\ cp.binding = c.binding

\* C16: a Ciphertext with a field changed after encrypt no longer matches its
\* ct_hash, and reencrypt and decrypt reject it.
C16_IntegrityHashDetectsTampering ==
    (last.op \in {"decrypt_tampered", "reencrypt_tampered"}) =>
        LET x == ChangedCt(Get(ct), last.args[1])
        IN /\ x.ct_hash # compute_hash(x.ct)
           /\ ~last.res.ok

\* the tag anyone computes from the ct_prime string alone, with hashlib and
\* no key
KeylessTag(cp) == sha256hex(Enc(sha256hex(Enc(json_loads(cp.ct_prime).reenc_key))))

\* C17: a verification tag that verify accepts cannot be computed from the
\* transformed components alone by a party holding no private key.
C17_VerifyReservedForKeyHolder ==
    (last.op = "verify" /\ last.res.ok /\ Get(last.res.val))
        => Handed.r_double_prime # KeylessTag(Handed)

\* C18: the pseudo-identifier a KeyGen call returns is derived from the
\* identity seed and fresh randomness, and is never the identity seed itself.
C18_PseudoIdentifierFreshness ==
    (last.op = "keygen" /\ last.res.ok) => Get(last.res.val).ptid # Str(last.args[2])

\* C19: a KeyGen invocation with an empty attribute set fails, through the
\* /keygen route and through the temporary-key generation inside /rekey.
C19_KeyGenRejectsEmptyAttributes ==
    /\ (last.op = "keygen" /\ last.level = "route" /\ last.args[1] = <<>>) => ~last.res.ok
    /\ (/\ last.op = "rekey" /\ ~last.uninit
        /\ last.args[1] # Absent /\ last.args[2] # Absent
        /\ \/ rho_values(AccessPolicy_from_dict(Get(last.args[2]))) = <<>>
           \/ rho_values(Ciphertext_from_dict(Get(last.args[1])).policy) = <<>>)
          => ~last.res.ok

\* the policy breaks the invariant of a well-formed access structure
Malformed(policy) ==
    \/ DOMAIN policy.rho = {}
    \/ Cardinality(DOMAIN policy.rho) # Len(policy.matrix)
    \/ \E i, j \in 1..Len(policy.matrix) : Len(policy.matrix[i]) # Len(policy.matrix[j])

\* C20: encrypt fails and returns no Ciphertext whenever the policy is
\* malformed.
C20_EncryptRejectsMalformedPolicy ==
    (/\ last.op = "encrypt" /\ last.level = "route" /\ ~last.uninit
     /\ last.args[1] # <<>> /\ last.args[2] # Absent
     /\ Malformed(AccessPolicy_from_dict(Get(last.args[2]))))
        => (~last.res.ok /\ IsNone(last.res.val))

\* C21: ReKeyGen fails and returns no ReencryptionKey when the target policy
\* names labels and none of them is a label the rider's keys hold.
C21_RekeyCompatibilityCheck ==
    (/\ last.op = "rekey" /\ ~last.uninit
     /\ last.args[1] # Absent /\ last.args[2] # Absent
     /\ LET target == Range(AccessPolicy_from_dict(Get(last.args[2])).rho)
            rider == Range(rho_values(Ciphertext_from_dict(Get(last.args[1])).policy))
        IN target # {} /\ target \cap rider = {})
        => (~last.res.ok /\ IsNone(last.res.val))

\* the three causes of a decrypt failure the caller has to tell apart
UnauthorizedDecrypt == DirectDecrypt /\ ~Satisfies(last.args[2])
ForgedDecrypt == ProxyDecrypt /\ last.args[1] # "none"
BadTagDecrypt == last.op = "decrypt_tampered" /\ last.args[1] = "body"

\* C22: decrypt fails for each of the three causes, and the error it reports
\* names the cause: verification failure for a changed transformed
\* ciphertext, the authentication failure for an invalid tag, and an error
\* that is neither of the two for keys that do not satisfy the policy.
C22_DistinguishableFailures ==
    /\ (UnauthorizedDecrypt \/ ForgedDecrypt \/ BadTagDecrypt) => ~last.res.ok
    /\ ForgedDecrypt => last.res.err = VerificationFailed
    /\ BadTagDecrypt => last.res.err = MacCheckFailed
    /\ UnauthorizedDecrypt => last.res.err \notin {VerificationFailed, MacCheckFailed}

\* a set of terms together with what bytes.fromhex reads out of its hex strings
Unhex(S) == S \cup {FromHex(x) : x \in {y \in S : IsHex(y)}}

\* the fields named in names of the JSON object string t
JsonFields(t, names) ==
    IF IsJson(t) THEN {json_loads(t)[f] : f \in names \cap DOMAIN json_loads(t)} ELSE {}

\* the secret key string of a UserKeys value and each of its components
KeySecrets(keys) ==
    {keys.sk} \cup {json_loads(keys.sk)[i][2] : i \in 1..Len(json_loads(keys.sk))}

\* the master secret and the secret key material of every registered user
\* and of the temporary users of the last /rekey
Secrets ==
    Unhex((IF IsNone(params) THEN {} ELSE {Get(params).mk})
          \cup UNION {KeySecrets(user_keys_store[i][2]) : i \in 1..Len(user_keys_store)}
          \cup (IF last.op = "rekey" /\ last.res.ok
                THEN UNION {KeySecrets(Get(keygen(params, attributes, Get(last.res.val).rekey[f], r).val)) :
                               attributes \in {rho_values(AccessPolicy_from_dict(Get(last.args[2]))),
                                               rho_values(Ciphertext_from_dict(Get(last.args[1])).policy)},
                               f \in {"ptid_from", "ptid_to"},
                               r \in Rand}
                ELSE {}))

\* the string values of a response body, and what json.loads and
\* bytes.fromhex read out of them (a JSON object string stands here as the
\* values of its fields)
WireValues ==
    LET body == Get(last.res.val)
        strings(rec, skip) == {rec[f] : f \in (DOMAIN rec) \ skip}
    IN IF ~last.res.ok THEN {}
       ELSE Unhex(
         CASE last.op = "setup" ->
                strings(body.params, {"initialized", "pk"})
                  \cup JsonFields(body.params.pk, {"public_key", "g"})
           [] last.op = "keygen" ->
                strings(body.keys, {"attributes"}) \cup {body.ptid}
           [] last.op = "encrypt" ->
                strings(body.ciphertext, {"policy", "ct"}) \cup {body.ct_hash}
                  \cup JsonFields(body.ciphertext.ct,
                                  {"ciphertext", "tag", "nonce", "aes_key_encrypted"})
           [] last.op = "rekey" ->
                strings(body.rekey, {"rk"})
                  \cup JsonFields(body.rekey.rk, DOMAIN json_loads(body.rekey.rk))
           [] last.op = "reencrypt" ->
                strings(body.ct_prime, {"ct_prime"}) \cup {body.ct_prime_hash}
                  \cup JsonFields(body.ct_prime.ct_prime, DOMAIN json_loads(body.ct_prime.ct_prime))
           [] OTHER -> {})

\* the fixed texts an error response carries
ErrorTexts ==
    {"System not initialized", "System not initialized. Call /setup first",
     "Missing attributes or user_id", "Missing plaintext or policy",
     "Missing driver_attributes or policy", "Missing required fields",
     "Missing ciphertext or rekey", "Missing ct_prime or user_ptid", "User keys not found",
     NotInitialized, VerificationFailed, MacCheckFailed, JSONDecodeError, KeyError,
     IndexError, NonHex, UnicodeDecodeError}

\* C23: no HTTP response, success or error, contains the master secret or a
\* user's secret key components.
C23_SecretsOffTheWire ==
    (last.level = "route") =>
        /\ WireValues \cap Secrets = {}
        /\ (~last.res.ok) => last.res.err \in ErrorTexts

C23_Witness ==
    /\ last.op = "rekey" /\ last.res.ok
    /\ Len(user_keys_store) > 0
    /\ Secrets # {} /\ WireValues # {}

\* what the holder of rk reads out of it, together with everything the
\* driver it targets holds
RekeyKnowledge ==
    Unhex(JsonFields(Get(rk).rk, DOMAIN json_loads(Get(rk).rk))
          \cup {Get(rk).ptid_from, Get(rk).ptid_to}
          \cup KeySecrets(Get(sk["driver"])) \cup {Get(sk["driver"]).ptid})

\* the keys of a party other than the rider and the driver
OtherKeys(r) == Get(keygen(params, <<"A">>, Str("other"), r).val)

\* the re-encryption keys generate_rekey gives from the rider to that party
RekeysToOther ==
    {Get(generate_rekey(Get(sk["rider"]), OtherKeys(r).sk, OtherKeys(r).ptid, reenc_random).val) :
        r \in Rand, reenc_random \in Rand}

\* r2 can be put together from what is known: its HMAC value is known, or
\* every message the HMAC is taken over is (the other party's keys are)
RekeyDerivable(r2, known) ==
    LET h == FromHex(json_loads(r2.rk).reenc_key)
    IN \/ h \in known
       \/ \A i \in 1..Len(h[3]) : h[3][i][2] \in known

C26_SingleWriterFrame ==
    [][/\ (last'.op # "keygen") => user_keys_store' = user_keys_store
       /\ (last'.op # "setup") => (system_params' = system_params /\ params' = params)
       /\ (last'.op \in {"encrypt", "match", "rekey", "reencrypt", "verify", "decrypt", "health"})
             => UNCHANGED <<inflight, user_keys_store, system_params, params>>]_vars

C26_Witness ==
    /\ last.op = "rekey" /\ last.res.ok /\ last.res.code = 200
    /\ ~IsNone(system_params)
    /\ Len(user_keys_store) > 0

\* the changes of a Ciphertext that AES-GCM authenticates against: the bytes
\* of the body, the tag, the nonce, and the key decrypt reads
AuthenticatedChanges == {"body", "tag", "nonce", "key"}

\* decrypt ran AES-GCM under a key that is not the one encrypt used
DifferentKeyDerived ==
    /\ last.op \in {"decrypt", "decrypt_tampered"}
    /\ ~IsNone(sent)
    /\ "aes_decrypt" \in Range(last.res.steps)
    /\ last.res.aes_key # Some(Get(sent).aes_key)

\* C27: decrypt of a ciphertext whose body, tag or nonce differs from what
\* encrypt produced, or for which a different symmetric key is derived,
\* raises the authentication failure and returns no plaintext.
C27_AuthenticatedDecryptionFailsClosed ==
    ((last.op = "decrypt_tampered" /\ last.args[1] \in AuthenticatedChanges) \/ DifferentKeyDerived)
        => /\ ~last.res.ok
           /\ last.res.err = MacCheckFailed
           /\ IsNone(last.res.val)

C27_Witness ==
    /\ last.op = "decrypt_tampered" /\ last.args[1] = "tag"
    /\ "aes_decrypt" \in Range(last.res.steps)
    /\ last.res.err = MacCheckFailed

\* the texts with which a handler or the engine reports missing parameters
UninitializedTexts ==
    {NotInitialized, "System not initialized", "System not initialized. Call /setup first"}

\* C28: once /setup has succeeded the parameters are never absent again, no
\* later request is answered with a "System not initialized" error, and the
\* route-level parameters being present implies the engine's are present.
C28_InitializationMonotone ==
    [][/\ (~IsNone(system_params')) => ~IsNone(params')
       /\ (~IsNone(system_params)) =>
             /\ ~IsNone(system_params')
             /\ ~IsNone(params')
             /\ last'.res.err \notin UninitializedTexts]_vars

C28_Witness ==
    /\ ~IsNone(system_params) /\ ~IsNone(params)
    /\ last.op = "keygen" /\ last.res.ok
    /\ ~last.uninit

\* C29: every Ciphertext returned by encrypt has ct_hash = compute_hash(ct)
\* and every ReencryptedCiphertext returned by reencrypt has
\* ct_prime_hash = compute_hash(ct_prime).
C29_HashConsistencyAtProduction ==
    /\ (last.op = "encrypt" /\ last.res.ok) =>
           Get(last.res.val).ct_hash = compute_hash(Get(last.res.val).ct)
    /\ (last.op \in {"reencrypt", "reencrypt_tampered"} /\ last.res.ok) =>
           Get(last.res.val).ct_prime_hash = compute_hash(Get(last.res.val).ct_prime)
    /\ (~IsNone(ct)) => Get(ct).ct_hash = compute_hash(Get(ct).ct)
    /\ (~IsNone(ct_prime)) => Get(ct_prime).ct_prime_hash = compute_hash(Get(ct_prime).ct_prime)

C29_Witness ==
    /\ last.op = "reencrypt" /\ last.res.ok
    /\ ~IsNone(ct) /\ ~IsNone(ct_prime)
    /\ Get(ct_prime).ct_prime_hash # Get(ct).ct_hash

\* --------------------------------------- requests served by several threads

\* the service after one /setup, every thread idle
ThreadedInit ==
    /\ \E master_key \in EccKeys : params = Some(setup(master_key))
    /\ system_params = params
    /\ user_keys_store = <<>>
    /\ sk = [u \in UserIds |-> None]
    /\ ct = None
    /\ rk = None
    /\ ct_prime = None
    /\ sent = None
    /\ inflight = [w \in Workers |-> Idle]
    /\ last = NoCall

\* the ct_prime a /verify or /decrypt request carries: one that verify accepts
ThreadedBody == Changed(SampleCtPrime, SampleRk, "reenc_key_swapped")

\* /keygen reads its body and enters crypto_engine.keygen: the master key is
\* loaded and user_random drawn
K_begin(w) ==
    \E user_id \in UserIds, user_random \in Rand :
        /\ inflight[w].pc = "idle"
        /\ inflight' = [inflight EXCEPT ![w] =
               [Idle EXCEPT !.pc = "loop", !.op = "keygen", !.user_id = user_id,
                            !.attributes = KeyAttrs[user_id],
                            !.master_der = Some(FromHex(Get(params).mk)),
                            !.user_random = Some(user_random)]]
        /\ UNCHANGED <<params, system_params, user_keys_store, sk, ct, rk, ct_prime, sent, last>>

\* the loop of keygen with the entry under construction put into
\* user_keys_store at every round
K_component_published(w) ==
    LET t == inflight[w]
        attr == t.attributes[t.i + 1]
        h == HMAC(Get(t.master_der), <<Enc(Str(attr)), Enc(Str(t.user_id)), Get(t.user_random)>>)
        grown == DictSet(t.sk_components, attr, Hex(h))
    IN /\ t.pc = "loop" /\ t.i < Len(t.attributes)
       /\ inflight' = [inflight EXCEPT ![w] = [t EXCEPT !.i = t.i + 1, !.sk_components = grown]]
       /\ user_keys_store' =
              DictSet(user_keys_store, Str(t.user_id),
                      UserKeysOf(json_dumps(grown), t.attributes, Str(t.user_id),
                                 compute_binding(Str(t.user_id))))
       /\ UNCHANGED <<params, system_params, sk, ct, rk, ct_prime, sent, last>>

\* one round of the loop of keygen: the component of the next attribute
K_component(w) ==
    LET t == inflight[w]
        attr == t.attributes[t.i + 1]
        h == HMAC(Get(t.master_der), <<Enc(Str(attr)), Enc(Str(t.user_id)), Get(t.user_random)>>)
    IN /\ t.pc = "loop" /\ t.i < Len(t.attributes)
       /\ inflight' = [inflight EXCEPT ![w] =
              [t EXCEPT !.i = t.i + 1, !.sk_components = DictSet(t.sk_components, attr, Hex(h))]]
       /\ UNCHANGED <<params, system_params, user_keys_store, sk, ct, rk, ct_prime, sent, last>>

\* the loop is over: keygen builds the UserKeys and returns it to the handler
K_return(w) ==
    LET t == inflight[w]
        ptid == Str(t.user_id)
    IN /\ t.pc = "loop" /\ t.i = Len(t.attributes)
       /\ inflight' = [inflight EXCEPT ![w] =
              [t EXCEPT !.pc = "built",
                        !.user_keys = Some(UserKeysOf(json_dumps(t.sk_components), t.attributes,
                                                      ptid, compute_binding(ptid)))]]
       /\ UNCHANGED <<params, system_params, user_keys_store, sk, ct, rk, ct_prime, sent, last>>

\* user_keys_store[user_keys.ptid] = user_keys
K_store(w) ==
    LET t == inflight[w]
    IN /\ t.pc = "built"
       /\ user_keys_store' = DictSet(user_keys_store, Get(t.user_keys).ptid, Get(t.user_keys))
       /\ inflight' = [inflight EXCEPT ![w] = [t EXCEPT !.pc = "stored"]]
       /\ UNCHANGED <<params, system_params, sk, ct, rk, ct_prime, sent, last>>

\* /keygen answers
K_respond(w) ==
    LET t == inflight[w]
        keys == Get(t.user_keys)
    IN /\ t.pc = "stored"
       /\ last' = Call("keygen", "route", FALSE, <<t.attributes, t.user_id>>,
                       Response(200, [keys |-> [ptid       |-> keys.ptid,
                                                attributes |-> keys.attributes,
                                                binding    |-> keys.binding],
                                      ptid |-> keys.ptid]))
       /\ inflight' = [inflight EXCEPT ![w] = Idle]
       /\ UNCHANGED <<params, system_params, user_keys_store, sk, ct, rk, ct_prime, sent>>

\* /verify or /decrypt reads its body and looks the caller up:
\* user_sk = user_keys_store.get(user_ptid)
R_lookup(w) ==
    \E op \in {"verify", "decrypt"}, user_ptid \in UserIds :
        /\ inflight[w].pc = "idle"
        /\ inflight' = [inflight EXCEPT ![w] =
               [Idle EXCEPT !.pc = "looked", !.op = op, !.user_id = user_ptid,
                            !.user_sk = StoreGet(Str(user_ptid))]]
        /\ UNCHANGED <<params, system_params, user_keys_store, sk, ct, rk, ct_prime, sent, last>>

\* /verify or /decrypt goes on with the user_sk it read, and answers
R_respond(w) ==
    LET t == inflight[w]
        res == IF t.op = "verify" THEN verify(ThreadedBody)
               ELSE decrypt(ThreadedBody, Get(t.user_sk))
        answer == IF IsNone(t.user_sk) THEN ErrorResponse(404, "User keys not found")
                  ELSE IF ~res.ok THEN ErrorResponse(500, res.err)
                  ELSE IF t.op = "verify" THEN Response(200, [valid |-> Get(res.val)])
                  ELSE Response(200, [plaintext |-> Get(res.val)])
    IN /\ t.pc = "looked"
       /\ last' = Call(t.op, "route", FALSE, <<Some(ThreadedBody), t.user_id>>, answer)
       /\ inflight' = [inflight EXCEPT ![w] = Idle]
       /\ UNCHANGED <<params, system_params, user_keys_store, sk, ct, rk, ct_prime, sent>>

ThreadedNext ==
    \E w \in Workers :
        \/ K_begin(w)
        \/ K_component(w)
        \/ K_return(w)
        \/ K_store(w)
        \/ K_respond(w)
        \/ R_lookup(w)
        \/ R_respond(w)

ThreadedSpec == ThreadedInit /\ [][ThreadedNext]_vars

\* keys is a UserKeys as keygen returns it: one component for each of its
\* attributes and the binding of its ptid
Complete(keys) ==
    \E master_key \in EccKeys, user_random \in Rand :
        keys = Get(keygen(Some(setup(master_key)), keys.attributes, keys.ptid, user_random).val)

\* C25: under any interleaving of a KeyGen request with Verify or Decrypt
\* requests that look up the same pseudo-identifier, the reader observes either
\* no entry or the fully constructed UserKeys, never a partially written one.
C25_RegistryReadsAllOrNothing ==
    /\ \A w \in Workers :
          (inflight[w].pc = "looked") =>
              (IsNone(inflight[w].user_sk) \/ Complete(Get(inflight[w].user_sk)))
    /\ \A i \in 1..Len(user_keys_store) : Complete(user_keys_store[i][2])

\* a reader holds the entry it read while a KeyGen for the same
\* pseudo-identifier is half way through its loop
C25_Witness ==
    \E w \in Workers, v \in Workers :
        /\ inflight[w].pc = "looked" /\ ~IsNone(inflight[w].user_sk)
        /\ inflight[v].pc = "loop" /\ inflight[v].user_id = inflight[w].user_id
        /\ inflight[v].i = 1 /\ Len(inflight[v].attributes) = 2

====
